---- MODULE Spec2Model ----
(***************************************************************************)
(* tunnelr: a relay that multiplexes public HTTP requests onto one         *)
(* websocket connection per tunnel (cmd/server/main.go), the tunnel        *)
(* registry (internal/tunnel/registry.go), the wire protocol               *)
(* (internal/tunnel/protocol.go) and the agent (the CLI, unnamed/part_000).*)
(*                                                                         *)
(* Every goroutine of the program is a process of the model: one handler   *)
(* per agent connection (handleTunnelConnection / handleCLIResponses), one *)
(* handler per public request (handleRequest / forwardRequest), and the    *)
(* agent on the other end of each connection (Spec).  The path-mode        *)
(* routing function extractFromPath is a specification of its own          *)
(* (PathSpec).                                                             *)
(***************************************************************************)
EXTENDS Integers, Sequences, FiniteSets, TLC

\* ------------------------------------------------------------------ bounds
\* Agent connections accepted on /ws, and public requests served on /.
Conns == {"c1", "c2"}
Reqs == {"r1", "r2"}
\* The values generateID can return (3 random bytes in the program).
TunnelIds == {"a", "b"}
\* The values time.Now().UnixNano() takes: 0..MaxClock.
MaxClock == 1
\* Frames sent by a peer of /ws that is not the agent program.
MaxInject == 2
\* The local port the agent was started with.
LocalPort == 3000

\* ------------------------------------------------------------------ protocol
TypeHTTPRequest == "http_request"
TypeHTTPResponse == "http_response"
TypeTunnelAssigned == "tunnel_assigned"
TypeTunnelRegister == "tunnel_register"

\* A frame on the wire.  type = "" is a frame whose envelope does not parse
\* (json.Unmarshal into Message fails); ok = FALSE is an envelope whose
\* payload does not parse.  id is the request id of a REQUEST or RESPONSE and
\* the local port of a REGISTER; ref is the tunnel id of an ASSIGNED and, for
\* a REQUEST or RESPONSE, the public request whose content it carries.
Message(type, ok, id, ref) == [type |-> type, ok |-> ok, id |-> id, ref |-> ref]

Malformed == Message("", FALSE, 0, "")
Unknown == Message("ping", TRUE, 0, "")
TunnelRegister(port) == Message(TypeTunnelRegister, TRUE, port, "")
TunnelAssigned(id) == Message(TypeTunnelAssigned, TRUE, 0, id)
HTTPRequest(id, r) == Message(TypeHTTPRequest, TRUE, id, r)
HTTPResponse(id, r) == Message(TypeHTTPResponse, TRUE, id, r)

NoResponse == Message("", FALSE, 0 - 1, "")

\* What a peer of /ws that is not the agent program can send: frames that
\* follow the protocol (a REGISTER, a RESPONSE with an id of its own choice)
\* and frames that do not (an envelope that does not parse, an unknown type,
\* a REGISTER or RESPONSE whose payload does not parse).
Wellformed == {TunnelRegister(LocalPort)} \cup {HTTPResponse(i, "") : i \in 0..MaxClock}
Broken ==
  {Malformed, Unknown, Message(TypeTunnelRegister, FALSE, 0, ""), Message(TypeHTTPResponse, FALSE, 0, "")}

\* The runs explored: an agent and a foreign peer (a REGISTER and one more
\* frame that follows the protocol) with one public request; one agent with
\* two public requests; a foreign peer alone (MaxInject frames of any kind)
\* with one public request.  The other processes never start.
Scopes ==
  { [conns |-> {"c1", "c2"}, foreign |-> {"c2"}, reqs |-> {"r1"}, frames |-> Wellformed, budget |-> 2],
    [conns |-> {"c1"}, foreign |-> {}, reqs |-> {"r1", "r2"}, frames |-> {}, budget |-> 0],
    [conns |-> {"c2"}, foreign |-> {"c2"}, reqs |-> {"r1"}, frames |-> Wellformed \cup Broken, budget |-> MaxInject] }

\* ------------------------------------------------------------------ maps
\* m[k] = v of a Go map, and delete(m, k).
MapPut(m, k, v) == [x \in DOMAIN m \cup {k} |-> IF x = k THEN v ELSE m[x]]
MapDelete(m, k) == [x \in DOMAIN m \ {k} |-> m[x]]
EmptyMap == [x \in {} |-> 0]

VARIABLES
  registry,    \* Registry.tunnels: tunnel id -> [conn, port]
  pending,     \* pendingRequests.m: request id -> the channel (named by the request that made it)
  chan,        \* the buffer (capacity 1) of each request's respChan
  now,         \* the reading time.Now().UnixNano() gives
  hpc,         \* position of each connection's relay handler
  tid,         \* tunnelID of each connection's relay handler
  held,        \* the response a handler is blocked sending, and the channel it sends on
  inbox,       \* frames sent by the peer that the relay has not read yet
  outbox,      \* frames written by the relay that the agent has not read yet
  peerClosed,  \* the peer closed the connection (or it broke)
  writers,     \* per connection, the relay goroutines inside conn.WriteMessage
  raced,       \* writers whose WriteMessage overlapped another on the same connection
  rpc,         \* position of each public request's handler
  rtarget,     \* the tunnel id extracted from the request
  rconn,       \* tun.Conn
  rid,         \* requestID
  wres,        \* what tun.Conn.WriteMessage did
  outcome,     \* the status written to the public caller (0: none) and the id its text names
  got,         \* the response forwardRequest took from respChan
  wrote,       \* how many times the handler wrote a status to the caller
  apc,         \* position of each connection's agent
  exec,        \* the agent's processRequest goroutines that have not reached their write
  awriters,    \* per connection, the agent goroutines inside conn.WriteMessage
  araced,      \* agent writers whose WriteMessage overlapped another on the same connection
  firstReq,    \* history: the request whose REQUEST the agent's reader loop read first
  scope,       \* the connections and requests that arrive in this run
  injected,    \* frames sent so far that the agent program would not send
  everSlot,    \* history: every <<request id, channel>> the pending table has held
  resolved,    \* history: the channels a RESPONSE has been sent on
  sent,        \* history: <<connection, request id>> of every RESPONSE frame a peer sent
  input,       \* the request target handed to a function of the routing layer
  output       \* what the function returned for it

vars == <<registry, pending, chan, now, hpc, tid, held, inbox, outbox,
          peerClosed, writers, raced, rpc, rtarget, rconn, rid, wres,
          outcome, got, wrote, apc, exec, awriters, araced, firstReq, scope, injected,
          everSlot, resolved, sent, input, output>>

relayVars == <<registry, hpc, tid, held>>
reqVars == <<rpc, rtarget, rconn, rid, wres, outcome, got, wrote>>
\* What no step of the relay or of the agent changes.
fixedVars == <<scope, input, output>>
agentVars == <<apc, exec, awriters, araced, firstReq, fixedVars>>
histVars == <<everSlot, resolved, sent>>

NoOutcome == [code |-> 0, names |-> ""]
NoHeld == [resp |-> NoResponse, ch |-> ""]

\* Nothing has connected and no request has arrived.
Quiet ==
  /\ registry = EmptyMap
  /\ pending = EmptyMap
  /\ chan = [r \in Reqs |-> <<>>]
  /\ now = 0
  /\ hpc = [c \in Conns |-> "connecting"]
  /\ tid = [c \in Conns |-> ""]
  /\ held = [c \in Conns |-> NoHeld]
  /\ inbox = [c \in Conns |-> <<>>]
  /\ outbox = [c \in Conns |-> <<>>]
  /\ peerClosed = [c \in Conns |-> FALSE]
  /\ writers = [c \in Conns |-> {}]
  /\ raced = {}
  /\ rpc = [r \in Reqs |-> "idle"]
  /\ rtarget = [r \in Reqs |-> ""]
  /\ rconn = [r \in Reqs |-> ""]
  /\ rid = [r \in Reqs |-> 0 - 1]
  /\ wres = [r \in Reqs |-> ""]
  /\ outcome = [r \in Reqs |-> NoOutcome]
  /\ got = [r \in Reqs |-> NoResponse]
  /\ wrote = [r \in Reqs |-> 0]
  /\ apc = [c \in Conns |-> "start"]
  /\ exec = [c \in Conns |-> {}]
  /\ awriters = [c \in Conns |-> {}]
  /\ araced = {}
  /\ firstReq = [c \in Conns |-> ""]
  /\ injected = 0
  /\ everSlot = {}
  /\ resolved = {}
  /\ sent = {}

Init ==
  /\ Quiet
  /\ scope \in Scopes
  /\ input = <<>>
  /\ output = <<>>

\* ------------------------------------------------------------------ registry
\* generateID: any of the values 3 random bytes encode.
generateID == TunnelIds

\* Registry.Register: r.tunnels[id] = &Tunnel{ID: id, Conn: conn, LocalPort: localPort}
Register(reg, id, conn, localPort) == MapPut(reg, id, [conn |-> conn, port |-> localPort])

\* The lookup reports every id as found.
GetNoCheck(reg, id) == <<[conn |-> "c1", port |-> 0], TRUE>>

\* Registry.Get: (tunnel, exists)
Get(reg, id) == IF id \in DOMAIN reg THEN <<reg[id], TRUE>> ELSE <<[conn |-> "", port |-> 0], FALSE>>

\* The entry is left in the map.
RemoveNothing(reg, id) == reg

\* Every entry is deleted.
RemoveAll(reg, id) == EmptyMap

\* Registry.Remove: delete(r.tunnels, id)
Remove(reg, id) == MapDelete(reg, id)

\* Registry.Count: len(r.tunnels)
Count(reg) == Cardinality(DOMAIN reg)

\* ------------------------------------------------------------------ connection
\* conn.Close() was called by the relay handler of c.
RelayClosed(c) == hpc[c] = "closed"

\* conn.ReadMessage on the relay returns an error: nothing is left to read and
\* the connection is closed on the other side.
ReadFails(c) == inbox[c] = <<>> /\ peerClosed[c]

\* What a conn.WriteMessage of goroutine w on c can do.  After the relay closed
\* the connection it fails; once the peer is gone it fails or is lost; when it
\* overlapped another WriteMessage on c (the connection supports one writer at
\* a time) it may also panic or put a damaged frame on the wire.
WriteResults(c, w) ==
  (IF RelayClosed(c) THEN {"err"}
   ELSE IF peerClosed[c] THEN {"err", "ok"} ELSE {"ok"})
  \cup (IF w \in raced THEN {"panic", "garbled"} ELSE {})

\* The frame a WriteMessage with result res leaves on the wire of c.
Wire(c, res, m) ==
  IF peerClosed[c] \/ RelayClosed(c) \/ res \in {"err", "panic"} THEN outbox[c]
  ELSE IF res = "garbled" THEN Append(outbox[c], Malformed)
  ELSE Append(outbox[c], m)

BeginWrite(c, w) ==
  /\ writers' = [writers EXCEPT ![c] = @ \cup {w}]
  /\ raced' = IF writers[c] # {} THEN raced \cup writers[c] \cup {w} ELSE raced

EndWrite(c, w) ==
  /\ writers' = [writers EXCEPT ![c] = @ \ {w}]
  /\ raced' = raced \ {w}

\* ------------------------------------------------------------------ relay: connection handler
\* The type of the first frame is not looked at.
ValidRegisterAnyType(m) == m.type # "" /\ m.ok

\* The first frame decides the handshake: the envelope must parse, its type
\* must be tunnel_register and its payload must parse.
ValidRegister(m) == m.type # "" /\ m.type = TypeTunnelRegister /\ m.ok

\* handleTunnelConnection up to registry.Register: read one frame; close the
\* connection unless it is a valid REGISTER; else register the tunnel.
HandshakeRead(c) ==
  /\ hpc[c] = "connecting"
  /\ IF ReadFails(c)
     THEN /\ hpc' = [hpc EXCEPT ![c] = "closed"]
          /\ UNCHANGED <<registry, tid, inbox>>
     ELSE /\ inbox[c] # <<>>
          /\ inbox' = [inbox EXCEPT ![c] = Tail(@)]
          /\ IF ValidRegister(Head(inbox[c]))
             THEN \E id \in generateID :
                    /\ registry' = Register(registry, id, c, Head(inbox[c]).id)
                    /\ tid' = [tid EXCEPT ![c] = id]
                    /\ hpc' = [hpc EXCEPT ![c] = "registered"]
             ELSE /\ hpc' = [hpc EXCEPT ![c] = "closed"]
                  /\ UNCHANGED <<registry, tid>>
  /\ UNCHANGED <<pending, chan, now, held, outbox, peerClosed, writers, raced,
                 reqVars, agentVars, injected, histVars>>

\* conn.WriteMessage of the ASSIGNED frame is entered.
AssignBegin(c) ==
  /\ hpc[c] = "registered"
  /\ hpc' = [hpc EXCEPT ![c] = "assigning"]
  /\ BeginWrite(c, c)
  /\ UNCHANGED <<registry, pending, chan, now, tid, held, inbox, outbox, peerClosed,
                 reqVars, agentVars, injected, histVars>>

\* conn.WriteMessage of the ASSIGNED frame returns: on an error the tunnel is
\* removed and the connection closed; else handleCLIResponses starts.  A
\* panic leaves handleTunnelConnection with nothing deferred.
AssignEnd(c) ==
  /\ hpc[c] = "assigning"
  /\ \E res \in WriteResults(c, c) :
       /\ EndWrite(c, c)
       /\ outbox' = [outbox EXCEPT ![c] = Wire(c, res, TunnelAssigned(tid[c]))]
       /\ IF res = "err"
          THEN /\ registry' = Remove(registry, tid[c])
               /\ hpc' = [hpc EXCEPT ![c] = "closed"]
          ELSE /\ registry' = registry
               /\ hpc' = [hpc EXCEPT ![c] = IF res = "panic" THEN "panicked" ELSE "active"]
  /\ UNCHANGED <<pending, chan, now, tid, held, inbox, peerClosed,
                 reqVars, agentVars, injected, histVars>>

\* The payload of a RESPONSE is not decoded before it is used.
IsResponseAnyPayload(m) == m.type = TypeHTTPResponse

\* The frames handleCLIResponses acts on: a parsed envelope of type
\* http_response with a parsed payload.
IsResponse(m) == m.type # "" /\ m.type = TypeHTTPResponse /\ m.ok

\* pendingRequests.m[resp.ID]: (ch, exists)
Lookup(p, id) == IF id \in DOMAIN p THEN <<p[id], TRUE>> ELSE <<"", FALSE>>

\* One iteration of the loop of handleCLIResponses.  A read error runs the
\* deferred registry.Remove and conn.Close.  A RESPONSE whose id has a slot
\* is sent on the slot's channel: into the buffer when it is empty, else the
\* handler blocks in the send.
HandlerRead(c) ==
  /\ hpc[c] = "active"
  /\ IF ReadFails(c)
     THEN /\ registry' = Remove(registry, tid[c])
          /\ hpc' = [hpc EXCEPT ![c] = "closed"]
          /\ UNCHANGED <<chan, held, inbox, resolved>>
     ELSE /\ inbox[c] # <<>>
          /\ inbox' = [inbox EXCEPT ![c] = Tail(@)]
          /\ registry' = registry
          /\ LET m == Head(inbox[c])
                 l == Lookup(pending, m.id)
             IN IF IsResponse(m) /\ l[2]
                THEN /\ resolved' = resolved \cup {l[1]}
                     /\ IF chan[l[1]] = <<>>
                        THEN /\ chan' = [chan EXCEPT ![l[1]] = <<m>>]
                             /\ UNCHANGED <<hpc, held>>
                        ELSE /\ hpc' = [hpc EXCEPT ![c] = "delivering"]
                             /\ held' = [held EXCEPT ![c] = [resp |-> m, ch |-> l[1]]]
                             /\ chan' = chan
                ELSE UNCHANGED <<chan, hpc, held, resolved>>
  /\ UNCHANGED <<pending, now, tid, outbox, peerClosed, writers, raced,
                 reqVars, agentVars, injected, everSlot, sent>>

\* The blocked send ch <- &resp completes once the buffer has room.
HandlerDeliver(c) ==
  /\ hpc[c] = "delivering"
  /\ chan[held[c].ch] = <<>>
  /\ chan' = [chan EXCEPT ![held[c].ch] = <<held[c].resp>>]
  /\ hpc' = [hpc EXCEPT ![c] = "active"]
  /\ held' = [held EXCEPT ![c] = NoHeld]
  /\ UNCHANGED <<registry, pending, now, tid, inbox, outbox, peerClosed, writers, raced,
                 reqVars, agentVars, injected, histVars>>

\* ------------------------------------------------------------------ relay: public requests
\* requestID := fmt.Sprintf("%d", time.Now().UnixNano()): the decimal form of
\* the clock reading t; distinct readings give distinct strings, so the id is
\* kept as the reading itself.
requestID(t) == t

\* The table is left as it was: the channel is never put in it.
SlotInsertSkipped(p, id, ch) == p

\* pendingRequests.m[requestID] = respChan
SlotInsert(p, id, ch) == MapPut(p, id, ch)

\* delete(pendingRequests.m, requestID)
SlotDelete(p, id) == MapDelete(p, id)

\* The history of the pending table after it becomes p.
Seen(p) == everSlot \cup {<<k, p[k]>> : k \in DOMAIN p}

\* http.Error(w, "Tunnel not found: "+tunnelID, http.StatusNotFound)
TunnelNotFound(id) == [code |-> 404, names |-> id]
\* http.Error(w, "Failed to read request body", http.StatusInternalServerError)
BodyReadFailed == [code |-> 500, names |-> ""]
\* http.Error(w, "Failed to forward request", http.StatusBadGateway)
ForwardFailed == [code |-> 502, names |-> ""]
\* http.Error(w, "Tunnel timeout", http.StatusGatewayTimeout)
TunnelTimeout == [code |-> 504, names |-> ""]
\* w.WriteHeader(resp.StatusCode); w.Write(resp.Body): the agent's response.
Forwarded == [code |-> 200, names |-> ""]

\* The return after the failed write is missing: the select is entered.
AfterWriteNoReturn(res) == IF res = "panic" THEN "cleanup" ELSE "waiting"

\* Where forwardRequest goes after tun.Conn.WriteMessage returned res: an
\* error returns at once (the deferred delete runs), a panic unwinds through
\* the deferred delete, anything else enters the select.
AfterWrite(res) == IF res \in {"err", "panic"} THEN "cleanup" ELSE "waiting"

\* handleRequest for a request whose extracted tunnel id is id, up to the
\* requestID of forwardRequest.
HandleRequest(r) ==
  /\ rpc[r] = "idle"
  /\ r \in scope.reqs
  /\ \E id \in TunnelIds :
       LET g == Get(registry, id) IN
       /\ rtarget' = [rtarget EXCEPT ![r] = id]
       /\ IF ~g[2]
          THEN /\ outcome' = [outcome EXCEPT ![r] = TunnelNotFound(id)]
               /\ wrote' = [wrote EXCEPT ![r] = @ + 1]
               /\ rpc' = [rpc EXCEPT ![r] = "done"]
               /\ UNCHANGED <<rconn, rid>>
          ELSE /\ rconn' = [rconn EXCEPT ![r] = g[1].conn]
               /\ rid' = [rid EXCEPT ![r] = requestID(now)]
               /\ rpc' = [rpc EXCEPT ![r] = "reading"]
               /\ UNCHANGED <<outcome, wrote>>
  /\ UNCHANGED <<pending, chan, now, relayVars, inbox, outbox, peerClosed, writers, raced,
                 wres, got, agentVars, injected, histVars>>

\* io.ReadAll(r.Body) fails: 500, and forwardRequest returns.
ReadBodyFail(r) ==
  /\ rpc[r] = "reading"
  /\ outcome' = [outcome EXCEPT ![r] = BodyReadFailed]
  /\ wrote' = [wrote EXCEPT ![r] = @ + 1]
  /\ rpc' = [rpc EXCEPT ![r] = "done"]
  /\ UNCHANGED <<pending, chan, now, relayVars, inbox, outbox, peerClosed, writers, raced,
                 rtarget, rconn, rid, wres, got, agentVars, injected, histVars>>

\* The body is read, the frame is built and the channel is put in the table.
Publish(r) ==
  /\ rpc[r] = "reading"
  /\ pending' = SlotInsert(pending, rid[r], r)
  /\ everSlot' = Seen(pending')
  /\ rpc' = [rpc EXCEPT ![r] = "published"]
  /\ UNCHANGED <<chan, now, relayVars, inbox, outbox, peerClosed, writers, raced,
                 rtarget, rconn, rid, wres, outcome, got, wrote, agentVars, injected, resolved, sent>>

\* tun.Conn.WriteMessage of the REQUEST frame is entered.
WriteBegin(r) ==
  /\ rpc[r] = "published"
  /\ rpc' = [rpc EXCEPT ![r] = "writing"]
  /\ BeginWrite(rconn[r], r)
  /\ UNCHANGED <<pending, chan, now, relayVars, inbox, outbox, peerClosed,
                 rtarget, rconn, rid, wres, outcome, got, wrote, agentVars, injected, histVars>>

\* tun.Conn.WriteMessage returns.
WriteEnd(r) ==
  /\ rpc[r] = "writing"
  /\ \E res \in WriteResults(rconn[r], r) :
       /\ EndWrite(rconn[r], r)
       /\ outbox' = [outbox EXCEPT ![rconn[r]] = Wire(rconn[r], res, HTTPRequest(rid[r], r))]
       /\ wres' = [wres EXCEPT ![r] = res]
       /\ rpc' = [rpc EXCEPT ![r] = AfterWrite(res)]
       /\ IF res = "err"
          THEN /\ outcome' = [outcome EXCEPT ![r] = ForwardFailed]
               /\ wrote' = [wrote EXCEPT ![r] = @ + 1]
          ELSE UNCHANGED <<outcome, wrote>>
  /\ UNCHANGED <<pending, chan, now, relayVars, inbox, peerClosed,
                 rtarget, rconn, rid, got, agentVars, injected, histVars>>

\* case resp := <-respChan
Receive(r) ==
  /\ rpc[r] = "waiting"
  /\ chan[r] # <<>>
  /\ got' = [got EXCEPT ![r] = Head(chan[r])]
  /\ chan' = [chan EXCEPT ![r] = Tail(@)]
  /\ outcome' = [outcome EXCEPT ![r] = Forwarded]
  /\ wrote' = [wrote EXCEPT ![r] = @ + 1]
  /\ rpc' = [rpc EXCEPT ![r] = "cleanup"]
  /\ UNCHANGED <<pending, now, relayVars, inbox, outbox, peerClosed, writers, raced,
                 rtarget, rconn, rid, wres, agentVars, injected, histVars>>

\* case <-time.After(30 * time.Second).  The timer runs on the monotonic
\* clock and UnixNano reads the wall clock, so the readings of now do not say
\* when it fires.
Timeout(r) ==
  /\ rpc[r] = "waiting"
  /\ outcome' = [outcome EXCEPT ![r] = TunnelTimeout]
  /\ wrote' = [wrote EXCEPT ![r] = @ + 1]
  /\ rpc' = [rpc EXCEPT ![r] = "cleanup"]
  /\ UNCHANGED <<pending, chan, now, relayVars, inbox, outbox, peerClosed, writers, raced,
                 rtarget, rconn, rid, wres, got, agentVars, injected, histVars>>

\* The deferred delete of forwardRequest, and the handler returns.
Cleanup(r) ==
  /\ rpc[r] = "cleanup"
  /\ pending' = SlotDelete(pending, rid[r])
  /\ everSlot' = Seen(pending')
  /\ rpc' = [rpc EXCEPT ![r] = "done"]
  /\ UNCHANGED <<chan, now, relayVars, inbox, outbox, peerClosed, writers, raced,
                 rtarget, rconn, rid, wres, outcome, got, wrote, agentVars, injected, resolved, sent>>

\* The clock moves on.
Tick ==
  /\ now < MaxClock
  /\ now' = now + 1
  /\ UNCHANGED <<registry, pending, chan, hpc, tid, held, inbox, outbox, peerClosed,
                 writers, raced, reqVars, agentVars, injected, histVars>>

\* ------------------------------------------------------------------ agent
\* The agent process ends (log.Fatalf, return of runConnect, a signal, a
\* crash): its goroutines end with it and the connection closes.
AgentExit(c) ==
  /\ apc' = [apc EXCEPT ![c] = "dead"]
  /\ exec' = [exec EXCEPT ![c] = {}]
  /\ awriters' = [awriters EXCEPT ![c] = {}]
  /\ araced' = araced \ awriters[c]
  /\ peerClosed' = [peerClosed EXCEPT ![c] = TRUE]

\* runConnect: conn.WriteMessage of the REGISTER frame.
AgentRegister(c) ==
  /\ apc[c] = "start"
  /\ c \in scope.conns \ scope.foreign
  /\ ~peerClosed[c]
  /\ inbox' = [inbox EXCEPT ![c] = IF RelayClosed(c) THEN @ ELSE Append(@, TunnelRegister(LocalPort))]
  /\ apc' = [apc EXCEPT ![c] = "handshake"]
  /\ UNCHANGED <<registry, pending, chan, now, hpc, tid, held, outbox, peerClosed,
                 writers, raced, reqVars, exec, awriters, araced, firstReq, fixedVars,
                 injected, histVars>>

\* runConnect: conn.ReadMessage for the assignment.  The envelope and its
\* payload must parse (json.Unmarshal into Message, then into
\* TunnelAssigned); the type of the envelope is not looked at.
AgentHandshake(c) ==
  /\ apc[c] = "handshake"
  /\ IF outbox[c] = <<>>
     THEN /\ RelayClosed(c)
          /\ AgentExit(c)
          /\ UNCHANGED outbox
     ELSE /\ outbox' = [outbox EXCEPT ![c] = Tail(@)]
          /\ IF Head(outbox[c]).type # "" /\ Head(outbox[c]).ok
             THEN /\ apc' = [apc EXCEPT ![c] = "loop"]
                  /\ UNCHANGED <<exec, awriters, araced, peerClosed>>
             ELSE AgentExit(c)
  /\ UNCHANGED <<registry, pending, chan, now, hpc, tid, held, inbox,
                 writers, raced, reqVars, firstReq, fixedVars, injected, histVars>>

\* The frames handleIncomingRequests acts on: a parsed envelope of type
\* http_request with a parsed payload.
IsRequest(m) == m.type # "" /\ m.type = TypeHTTPRequest /\ m.ok

\* The reader loop runs processRequest itself and reads on when it returned.
ReaderWaits(ex) == ex = {}

\* go processRequest(conn, localPort, &req): the reader loop does not wait for
\* the executions ex it started.
ReaderFree(ex) == TRUE

\* One iteration of handleIncomingRequests: a REQUEST starts a processRequest
\* goroutine, any other frame is skipped, a read error ends the agent.
AgentRead(c) ==
  /\ apc[c] = "loop"
  /\ ReaderFree(exec[c] \cup awriters[c])
  /\ IF outbox[c] = <<>>
     THEN /\ RelayClosed(c)
          /\ AgentExit(c)
          /\ UNCHANGED <<outbox, firstReq>>
     ELSE /\ outbox' = [outbox EXCEPT ![c] = Tail(@)]
          /\ LET m == Head(outbox[c]) IN
             /\ exec' = [exec EXCEPT ![c] = IF IsRequest(m) THEN @ \cup {m} ELSE @]
             /\ firstReq' = [firstReq EXCEPT ![c] = IF IsRequest(m) /\ @ = "" THEN m.ref ELSE @]
          /\ UNCHANGED <<apc, awriters, araced, peerClosed>>
  /\ UNCHANGED <<registry, pending, chan, now, hpc, tid, held, inbox,
                 writers, raced, reqVars, fixedVars, injected, histVars>>

\* processRequest for the REQUEST m has its RESPONSE with m's id (the local
\* service's response, or 502 or 500 by sendErrorResponse) and enters
\* conn.WriteMessage.
ProcessRequest(c, m) ==
  /\ apc[c] = "loop"
  /\ m \in exec[c]
  /\ exec' = [exec EXCEPT ![c] = @ \ {m}]
  /\ awriters' = [awriters EXCEPT ![c] = @ \cup {m}]
  /\ araced' = IF awriters[c] # {} THEN araced \cup awriters[c] \cup {m} ELSE araced
  /\ UNCHANGED <<registry, pending, chan, now, hpc, tid, held, inbox, outbox, peerClosed,
                 writers, raced, reqVars, apc, firstReq, fixedVars, injected, histVars>>

AgentReplyBegin(c) == \E m \in exec[c] : ProcessRequest(c, m)

\* What the conn.WriteMessage of the RESPONSE to m can do on the agent: it
\* fails after the relay closed the connection; when it overlapped another
\* WriteMessage on c it may also panic or put a damaged frame on the wire.
AgentWriteResults(c, m) ==
  (IF RelayClosed(c) THEN {"err"} ELSE {"ok"})
  \cup (IF m \in araced THEN {"panic", "garbled"} ELSE {})

\* conn.WriteMessage of a RESPONSE returns and processRequest ends.  Nothing
\* recovers a panic: the agent process ends.
AgentReplyEnd(c) ==
  /\ apc[c] = "loop"
  /\ \E m \in awriters[c] : \E res \in AgentWriteResults(c, m) :
       IF res = "panic"
       THEN /\ AgentExit(c)
            /\ UNCHANGED <<inbox, sent>>
       ELSE /\ awriters' = [awriters EXCEPT ![c] = @ \ {m}]
            /\ araced' = araced \ {m}
            /\ inbox' = [inbox EXCEPT ![c] =
                           IF RelayClosed(c) THEN @
                           ELSE Append(@, IF res = "garbled" THEN Malformed ELSE HTTPResponse(m.id, m.ref))]
            /\ sent' = IF res = "garbled" THEN sent ELSE sent \cup {<<c, m.id>>}
            /\ UNCHANGED <<apc, exec, peerClosed>>
  /\ UNCHANGED <<registry, pending, chan, now, hpc, tid, held, outbox,
                 writers, raced, reqVars, firstReq, fixedVars, injected, everSlot, resolved>>

\* The agent is interrupted or killed, or the network drops the connection.
\* On an interrupt runConnect writes the close message; when that overlaps a
\* RESPONSE write the frame on the wire may be damaged.
PeerClose(c) ==
  /\ ~peerClosed[c]
  /\ c \in scope.conns
  /\ AgentExit(c)
  /\ \/ inbox' = inbox
     \/ /\ awriters[c] # {}
        /\ ~RelayClosed(c)
        /\ inbox' = [inbox EXCEPT ![c] = Append(@, Malformed)]
  /\ UNCHANGED <<registry, pending, chan, now, hpc, tid, held, outbox,
                 writers, raced, reqVars, firstReq, fixedVars, injected, histVars>>

\* A peer that is not the agent program sends a frame.
Inject(c) ==
  /\ injected < scope.budget
  /\ c \in scope.foreign
  /\ ~peerClosed[c]
  /\ ~RelayClosed(c)
  /\ \E m \in scope.frames :
       /\ inbox' = [inbox EXCEPT ![c] = Append(@, m)]
       /\ sent' = IF m.type = TypeHTTPResponse THEN sent \cup {<<c, m.id>>} ELSE sent
  /\ injected' = injected + 1
  /\ UNCHANGED <<registry, pending, chan, now, hpc, tid, held, outbox, peerClosed,
                 writers, raced, reqVars, agentVars, everSlot, resolved>>

\* ------------------------------------------------------------------ specification
Next ==
  \/ \E c \in Conns : HandshakeRead(c)
  \/ \E c \in Conns : AssignBegin(c)
  \/ \E c \in Conns : AssignEnd(c)
  \/ \E c \in Conns : HandlerRead(c)
  \/ \E c \in Conns : HandlerDeliver(c)
  \/ \E r \in Reqs : HandleRequest(r)
  \/ \E r \in Reqs : ReadBodyFail(r)
  \/ \E r \in Reqs : Publish(r)
  \/ \E r \in Reqs : WriteBegin(r)
  \/ \E r \in Reqs : WriteEnd(r)
  \/ \E r \in Reqs : Receive(r)
  \/ \E r \in Reqs : Timeout(r)
  \/ \E r \in Reqs : Cleanup(r)
  \/ Tick
  \/ \E c \in Conns : AgentRegister(c)
  \/ \E c \in Conns : AgentHandshake(c)
  \/ \E c \in Conns : AgentRead(c)
  \/ \E c \in Conns : AgentReplyBegin(c)
  \/ \E c \in Conns : AgentReplyEnd(c)
  \/ \E c \in Conns : PeerClose(c)
  \/ \E c \in Conns : Inject(c)

Spec == Init /\ [][Next]_vars

\* ------------------------------------------------------------------ properties
\* The frames of type http_request or http_response in a sequence of frames.
Frames(q, type) == {q[i] : i \in {j \in DOMAIN q : q[j].type = type}}

\* The channel of request r is in the pending table.
SlotPresent(r) == \E k \in DOMAIN pending : pending[k] = r

\* The handler of request r is between its admission and its outcome.
InFlight(r) == rpc[r] \in {"reading", "published", "writing", "waiting"}

\* C1: the response forwardRequest writes to a public caller carries the
\* request id made for that caller's request and is never the response to
\* another caller's request.
CorrelationCorrect ==
  \A r \in Reqs :
    outcome[r] = Forwarded =>
      /\ got[r].id = rid[r]
      /\ got[r].ref \notin Reqs \ {r}

\* C2: no two requests in flight at the same time hold the same request id,
\* and the id of a request that ended is not given to a later request.
RequestIdUnique ==
  \A r1, r2 \in Reqs :
    (r1 # r2 /\ rid[r1] >= 0 /\ rid[r2] >= 0) => rid[r1] # rid[r2]

\* C3: the id Register returns is absent from the Registry before the insert
\* and maps to the new connection and port after it, and no entry that was
\* there is overwritten.
RegisterFresh ==
  [][\A c \in Conns :
       (hpc[c] = "connecting" /\ hpc'[c] = "registered") =>
         /\ tid'[c] \notin DOMAIN registry
         /\ tid'[c] \in DOMAIN registry'
         /\ registry'[tid'[c]].conn = c
         /\ \A k \in DOMAIN registry : registry'[k] = registry[k]]_vars

\* C4: when the handler of a registered tunnel ends because its connection
\* closed, Get of its id is not-found afterwards and Count is one lower than
\* before, the other tunnels being unchanged.
CleanupOnClose ==
  [][\A c \in Conns :
       (hpc[c] = "active" /\ hpc'[c] = "closed") =>
         /\ tid[c] \notin DOMAIN registry'
         /\ Cardinality(DOMAIN registry') = Cardinality(DOMAIN registry) - 1
         /\ \A k \in DOMAIN registry' : registry'[k] = registry[k]]_vars

\* C5: handling a RESPONSE for a slot on which a RESPONSE was already sent is
\* a no-op: no channel changes and the handler goes on reading.
SecondResolveNoop ==
  [][\A c \in Conns :
       ( /\ hpc[c] = "active"
         /\ inbox[c] # <<>>
         /\ inbox'[c] = Tail(inbox[c])
         /\ Head(inbox[c]).type = TypeHTTPResponse
         /\ Head(inbox[c]).ok
         /\ Head(inbox[c]).id \in DOMAIN pending
         /\ pending[Head(inbox[c]).id] \in resolved ) =>
         /\ chan' = chan
         /\ hpc'[c] = "active"]_vars

\* C6: a REQUEST frame is on a connection only after the slot of its request
\* was put in the pending table under the id the frame carries; so is every
\* RESPONSE the agent makes for it.
AwaitBeforeSend ==
  \A c \in Conns :
    /\ \A m \in Frames(outbox[c], TypeHTTPRequest) \cup exec[c] : <<m.id, m.ref>> \in everSlot
    /\ \A m \in Frames(inbox[c], TypeHTTPResponse) : m.ref \in Reqs => <<m.id, m.ref>> \in everSlot

AwaitBeforeSendWitness ==
  \E c \in Conns : \E m \in Frames(outbox[c], TypeHTTPRequest) : rpc[m.ref] = "waiting"

\* C7: a forwarded request for which the peer of its tunnel never sent a
\* RESPONSE carrying its id ends with 504 and its slot absent.
TimeoutWhenSilent ==
  \A r \in Reqs :
    (rpc[r] = "done" /\ wres[r] = "ok" /\ <<rconn[r], rid[r]>> \notin sent) =>
      /\ outcome[r] = TunnelTimeout
      /\ ~SlotPresent(r)

\* C8: a request with an extracted tunnel id ends with exactly one outcome
\* out of the agent's response, 404, 502 and 504.
ExactlyOneOutcome ==
  \A r \in Reqs :
    rpc[r] = "done" =>
      /\ wrote[r] = 1
      /\ outcome[r].code \in {Forwarded.code, TunnelNotFound("").code, ForwardFailed.code, TunnelTimeout.code}

\* C9: after tun.Conn.WriteMessage returned an error the caller has got 502
\* and nothing else, the handler is past the select without having taken a
\* response, no REQUEST of it is on any connection, and once the handler
\* returned its slot is not in the pending table.
DeliveryFailure ==
  \A r \in Reqs :
    wres[r] = "err" =>
      /\ outcome[r] = ForwardFailed
      /\ wrote[r] = 1
      /\ rpc[r] \in {"cleanup", "done"}
      /\ got[r] = NoResponse
      /\ \A c \in Conns : \A m \in Frames(outbox[c], TypeHTTPRequest) \cup exec[c] : m.ref # r
      /\ rpc[r] = "done" => ~SlotPresent(r)

DeliveryFailureWitness ==
  \E r \in Reqs : wres[r] = "err" /\ rpc[r] = "done" /\ hpc[rconn[r]] = "closed"

\* C10: a request whose extracted id is not in the Registry gets 404 naming
\* that id; its handling writes no frame on any connection and creates no
\* slot, and it is over.
UnknownTunnel ==
  /\ [][\A r \in Reqs :
          (rpc[r] = "idle" /\ rpc'[r] # "idle" /\ rtarget'[r] \notin DOMAIN registry) =>
            /\ outcome'[r] = [code |-> 404, names |-> rtarget'[r]]
            /\ wrote'[r] = 1
            /\ rpc'[r] = "done"
            /\ outbox' = outbox
            /\ writers' = writers
            /\ pending' = pending]_vars
  /\ [](\A r \in Reqs :
          outcome[r].code = 404 =>
            /\ rpc[r] = "done"
            /\ ~SlotPresent(r)
            /\ \A c \in Conns : \A m \in Frames(outbox[c], TypeHTTPRequest) \cup exec[c] : m.ref # r)

UnknownTunnelWitness ==
  \E r \in Reqs : outcome[r].code = 404 /\ outcome[r].names = "b" /\ DOMAIN registry = {"a"}

\* C11: the handshake of the relay reads one frame; when the read fails or the
\* frame is not a REGISTER whose envelope and payload parse, the connection is
\* closed with the Registry as it was and no tunnel id taken, and a closed
\* connection is never Active again.
HandshakeAbort ==
  /\ [][\A c \in Conns :
          (hpc[c] = "connecting" /\ hpc'[c] # "connecting") =>
            /\ inbox[c] # <<>> => inbox'[c] = Tail(inbox[c])
            /\ (inbox[c] = <<>> \/ Head(inbox[c]).type # TypeTunnelRegister \/ ~Head(inbox[c]).ok) =>
                 /\ hpc'[c] = "closed"
                 /\ registry' = registry
                 /\ tid'[c] = ""]_vars
  /\ [][\A c \in Conns : hpc[c] = "closed" => hpc'[c] = "closed"]_vars
  /\ [](\A c \in Conns :
          (hpc[c] = "closed" /\ tid[c] = "") => \A k \in DOMAIN registry : registry[k].conn # c)

\* The peer is still there, so the read did not fail: the first frame was
\* refused.
HandshakeAbortWitness ==
  \E c \in Conns :
    hpc[c] = "closed" /\ tid[c] = "" /\ ~peerClosed[c] /\ injected >= 1 /\ Count(registry) = 0

\* C12: when the write of the ASSIGNED frame fails, the handler ends with the
\* connection closed and Get of the tunnel's id not-found; it never becomes
\* Active, no Registry entry leads to the connection, and no frame is written
\* on it afterwards.
FailedAssignment ==
  /\ [][\A c \in Conns :
          (hpc[c] = "assigning" /\ hpc'[c] = "closed") =>
            /\ ~Get(registry', tid[c])[2]
            /\ outbox'[c] = outbox[c]]_vars
  /\ [][\A c \in Conns :
          (hpc[c] = "closed" /\ tid[c] # "") =>
            /\ hpc'[c] = "closed"
            /\ Len(outbox'[c]) <= Len(outbox[c])]_vars
  /\ [](\A c \in Conns :
          (hpc[c] = "closed" /\ tid[c] # "") => \A k \in DOMAIN registry : registry[k].conn # c)

\* A handler that ends in the Active loop has read everything the peer sent;
\* this one ended with a frame unread, so it ended at the ASSIGNED write.
FailedAssignmentWitness ==
  \E c \in Conns :
    hpc[c] = "closed" /\ tid[c] # "" /\ inbox[c] # <<>> /\ ~Get(registry, tid[c])[2]

\* C13: no REQUEST frame is on an agent connection before the relay has sent
\* the ASSIGNED frame on it.
AssignedFirst ==
  \A c \in Conns :
    hpc[c] \in {"connecting", "registered", "assigning"} => Frames(outbox[c], TypeHTTPRequest) = {}

\* C14: at most one conn.WriteMessage is in progress on a connection, on the
\* relay's side and on the agent's side.
SingleWriter ==
  \A c \in Conns :
    /\ Cardinality(writers[c]) <= 1
    /\ Cardinality(awriters[c]) <= 1

\* C15: when a processRequest of a living agent ends, the RESPONSE with the
\* id of its REQUEST is the frame it put on the connection, and no request
\* has two RESPONSE frames on a connection.
AgentAnswersOnce ==
  /\ [][\A c \in Conns : \A m \in awriters[c] \ awriters'[c] :
          (apc'[c] = "loop" /\ ~RelayClosed(c)) =>
            inbox'[c] = Append(inbox[c], HTTPResponse(m.id, m.ref))]_vars
  /\ [](\A c \in Conns : \A r \in Reqs :
          Cardinality({i \in DOMAIN inbox[c] :
                         inbox[c][i].type = TypeHTTPResponse /\ inbox[c][i].ref = r}) <= 1)

\* C17: the agent enters its reader loop only by reading a frame of type
\* tunnel_assigned.
AgentHandshakeAssigned ==
  [][\A c \in Conns :
       (apc[c] = "handshake" /\ apc'[c] = "loop") =>
         /\ outbox[c] # <<>>
         /\ Head(outbox[c]).type = TypeTunnelAssigned]_vars

\* C16: whatever executions are suspended, the reader loop of a running agent
\* can read the next frame, and every execution can go on to send its
\* RESPONSE whatever the others do; so a RESPONSE can be sent before that of
\* a REQUEST that arrived earlier.
RequestIndependence ==
  \A c \in Conns :
    apc[c] = "loop" =>
      /\ outbox[c] # <<>> => ENABLED AgentRead(c)
      /\ \A m \in exec[c] : ENABLED ProcessRequest(c, m)

\* The REQUEST read first is still executing and the RESPONSE to a REQUEST
\* read after it is already on the wire.
RequestIndependenceWitness ==
  \E c \in Conns : \E m \in exec[c] :
    /\ m.ref = firstReq[c]
    /\ \E i \in DOMAIN inbox[c] :
         inbox[c][i].type = TypeHTTPResponse /\ inbox[c][i].ref \in Reqs \ {m.ref}

\* C18: reading a frame that does not parse, or whose type the loop does not
\* handle, leaves the relay's handler Active with the Registry, the pending
\* table and every channel as they were, and leaves the agent in its loop
\* with no execution started; reading a frame never ends the agent's loop,
\* and the relay's loop ends only when its read fails.
SkipMalformed ==
  /\ [][\A c \in Conns :
          ( /\ hpc[c] = "active"
            /\ inbox[c] # <<>>
            /\ inbox'[c] = Tail(inbox[c])
            /\ (Head(inbox[c]).type # TypeHTTPResponse \/ ~Head(inbox[c]).ok) ) =>
            /\ hpc'[c] = "active"
            /\ registry' = registry
            /\ pending' = pending
            /\ chan' = chan
            /\ held' = held]_vars
  /\ [][\A c \in Conns :
          (apc[c] = "loop" /\ outbox[c] # <<>> /\ outbox'[c] = Tail(outbox[c])) =>
            /\ apc'[c] = "loop"
            /\ peerClosed'[c] = peerClosed[c]
            /\ (Head(outbox[c]).type # TypeHTTPRequest \/ ~Head(outbox[c]).ok) =>
                 exec' = exec /\ awriters' = awriters]_vars
  /\ [][\A c \in Conns :
          (hpc[c] = "active" /\ hpc'[c] # "active") =>
            \/ hpc'[c] = "closed" /\ inbox[c] = <<>> /\ peerClosed[c]
            \/ hpc'[c] = "delivering" /\ IsResponse(Head(inbox[c]))]_vars

\* A peer sent two frames, neither a RESPONSE, and its handler has read both
\* and is Active: the loop skipped the second.  An agent that read a REQUEST
\* as its handshake has skipped the ASSIGNED frame in its loop.
SkipMalformedWitness ==
  /\ \E c \in Conns :
       /\ c \in scope.foreign
       /\ hpc[c] = "active"
       /\ inbox[c] = <<>>
       /\ injected = 2
       /\ sent = {}
  /\ \E c \in Conns : \E r \in Reqs :
       /\ apc[c] = "loop"
       /\ hpc[c] = "active"
       /\ outbox[c] = <<>>
       /\ firstReq[c] = ""
       /\ rconn[r] = c
       /\ wres[r] = "ok"

\* C19: a RESPONSE whose id has no slot, or that was made for a request
\* which has ended, is dropped: handling it changes no channel and no slot
\* and the handler goes on reading.
LateResponseDropped ==
  [][\A c \in Conns :
       ( /\ hpc[c] = "active"
         /\ inbox[c] # <<>>
         /\ inbox'[c] = Tail(inbox[c])
         /\ IsResponse(Head(inbox[c]))
         /\ \/ Head(inbox[c]).id \notin DOMAIN pending
            \/ Head(inbox[c]).ref \in Reqs /\ rpc[Head(inbox[c]).ref] = "done" ) =>
         /\ chan' = chan
         /\ pending' = pending
         /\ hpc'[c] = "active"]_vars

\* ------------------------------------------------------------------ path mode
\* Request targets are sequences of characters, at most MaxLen long.
Chars == {"/", "t", "a", "?"}
MaxLen == 8

\* strings.Index(s, ch) + 1: the first position of ch in s, 0 when absent.
Index(s, ch) ==
  IF \E i \in DOMAIN s : s[i] = ch
  THEN CHOOSE i \in DOMAIN s : s[i] = ch /\ \A j \in 1..(i - 1) : s[j] # ch
  ELSE 0

\* strings.HasPrefix(s, p)
HasPrefix(s, p) == Len(s) >= Len(p) /\ SubSeq(s, 1, Len(p)) = p

\* strings.TrimPrefix(s, p)
TrimPrefix(s, p) == IF HasPrefix(s, p) THEN SubSeq(s, Len(p) + 1, Len(s)) ELSE s

\* strings.SplitN(s, sep, 2): s itself when sep is not in it, else what is
\* before and what is after the first sep.
SplitN(s, sep) ==
  IF Index(s, sep) = 0 THEN <<s>>
  ELSE <<SubSeq(s, 1, Index(s, sep) - 1), SubSeq(s, Index(s, sep) + 1, Len(s))>>

\* r.URL.Path: the request target up to its query.
URLPath(target) ==
  IF Index(target, "?") = 0 THEN target ELSE SubSeq(target, 1, Index(target, "?") - 1)

\* The paths the mux hands to handleRequest: it answers a path with an empty
\* segment by a redirect to the cleaned path.
Clean(path) == \A i \in 1..(Len(path) - 1) : ~(path[i] = "/" /\ path[i + 1] = "/")

Targets ==
  {t \in UNION {[1..n -> Chars] : n \in 1..MaxLen} : t[1] = "/" /\ Clean(URLPath(t))}

\* extractFromPath(path) (tunnelID, forwardPath)
extractFromPath(path) ==
  IF ~HasPrefix(path, <<"/", "t", "/">>)
  THEN [tunnelID |-> <<>>, forwardPath |-> <<>>]
  ELSE LET remaining == TrimPrefix(path, <<"/", "t", "/">>)
           parts == SplitN(remaining, "/")
       IN IF Len(parts) = 0 \/ parts[1] = <<>>
          THEN [tunnelID |-> <<>>, forwardPath |-> <<>>]
          ELSE [tunnelID |-> parts[1],
                forwardPath |-> IF Len(parts) > 1 THEN <<"/">> \o parts[2] ELSE <<"/">>]

\* No connection and no forwarded request: the routing functions use neither.
NoScope == [conns |-> {}, foreign |-> {}, reqs |-> {}, frames |-> {}, budget |-> 0]

NotReturned == [returned |-> FALSE, tunnelID |-> <<>>, forwardPath |-> <<>>]

PathInit ==
  /\ Quiet
  /\ scope = NoScope
  /\ input \in Targets
  /\ output = NotReturned

\* handleRequest in path mode: tunnelID, forwardPath = extractFromPath(r.URL.Path)
HandlePath ==
  /\ ~output.returned
  /\ output' = [returned |-> TRUE,
                tunnelID |-> extractFromPath(URLPath(input)).tunnelID,
                forwardPath |-> extractFromPath(URLPath(input)).forwardPath]
  /\ UNCHANGED <<registry, pending, chan, now, hpc, tid, held, inbox, outbox, peerClosed,
                 writers, raced, reqVars, apc, exec, awriters, araced, firstReq, scope,
                 injected, histVars, input>>

PathNext == HandlePath

PathSpec == PathInit /\ [][PathNext]_vars

\* The segment after /t/ of a request target, and what follows the segment.
Segment(target) ==
  LET rest == TrimPrefix(target, <<"/", "t", "/">>)
      ends == {i \in DOMAIN rest : rest[i] \in {"/", "?"}}
  IN IF ends = {} THEN rest
     ELSE SubSeq(rest, 1, (CHOOSE i \in ends : \A j \in ends : i <= j) - 1)

AfterSegment(target) ==
  SubSeq(target, 3 + Len(Segment(target)) + 1, Len(target))

\* C20: in path mode a request target /t/<segment><rest> with a non-empty
\* segment (<rest> empty or a path, its query if any not empty) gives the
\* segment as identifier and <rest>, query included, as forwarding path, "/"
\* when nothing follows; a target without the prefix gives no identifier.
PathModeExtraction ==
  output.returned =>
    /\ ( /\ HasPrefix(input, <<"/", "t", "/">>)
         /\ Segment(input) # <<>>
         /\ (AfterSegment(input) = <<>> \/ Head(AfterSegment(input)) = "/")
         /\ (Index(input, "?") = 0 \/ Index(input, "?") < Len(input)) ) =>
         /\ output.tunnelID = Segment(input)
         /\ output.forwardPath = IF AfterSegment(input) = <<>> THEN <<"/">> ELSE AfterSegment(input)
    /\ ~HasPrefix(input, <<"/", "t", "/">>) => output.tunnelID = <<>>

\* ------------------------------------------------------------------ hostname mode
\* Host headers are sequences of characters, at most MaxHost long; the label
\* localhost is kept as one character.
HostChars == {"a", "b", "localhost", ".", ":"}
MaxHost == 5
Hosts == UNION {[1..n -> HostChars] : n \in 1..MaxHost}

\* The values of BASE_DOMAIN: localhost, b and b.a
BaseDomains == {<<"localhost">>, <<"b">>, <<"b", ".", "a">>}

\* strings.LastIndex(s, ch) + 1: the last position of ch in s, 0 when absent.
LastIndex(s, ch) ==
  IF \E i \in DOMAIN s : s[i] = ch
  THEN CHOOSE i \in DOMAIN s : s[i] = ch /\ \A j \in (i + 1)..Len(s) : s[j] # ch
  ELSE 0

\* strings.Split(s, sep)
RECURSIVE Split(_, _)
Split(s, sep) ==
  IF Index(s, sep) = 0 THEN <<s>>
  ELSE <<SubSeq(s, 1, Index(s, sep) - 1)>> \o Split(SubSeq(s, Index(s, sep) + 1, Len(s)), sep)

\* host[:idx] for idx := strings.LastIndex(host, ":"), when there is one.
StripPort(host) ==
  IF LastIndex(host, ":") # 0 THEN SubSeq(host, 1, LastIndex(host, ":") - 1) ELSE host

\* extractSubdomain(host), with the configured baseDomain
extractSubdomain(host, baseDomain) ==
  LET h == StripPort(host)
      parts == Split(h, ".")
  IN IF Len(parts) < 2 THEN <<>>
     ELSE IF h = baseDomain THEN <<>>
     ELSE IF parts[Len(parts)] = <<"localhost">> /\ Len(parts) = 2 THEN parts[1]
     ELSE IF Len(parts) >= 3 THEN parts[1]
     ELSE <<>>

\* r.URL.RequestURI(): the path, then "?" and the query when the target has one.
RequestURI(target) ==
  IF Index(target, "?") = 0 THEN URLPath(target)
  ELSE URLPath(target) \o <<"?">> \o SubSeq(target, Index(target, "?") + 1, Len(target))

HostInit ==
  /\ Quiet
  /\ scope = NoScope
  /\ input \in [host : Hosts, baseDomain : BaseDomains, target : {t \in Targets : Len(t) <= 2}]
  /\ output = NotReturned

\* handleRequest in subdomain mode: tunnelID = extractSubdomain(r.Host),
\* forwardPath = r.URL.RequestURI()
HandleHost ==
  /\ ~output.returned
  /\ output' = [returned |-> TRUE,
                tunnelID |-> extractSubdomain(input.host, input.baseDomain),
                forwardPath |-> RequestURI(input.target)]
  /\ UNCHANGED <<registry, pending, chan, now, hpc, tid, held, inbox, outbox, peerClosed,
                 writers, raced, reqVars, apc, exec, awriters, araced, firstReq, scope,
                 injected, histVars, input>>

HostNext == HandleHost

HostSpec == HostInit /\ [][HostNext]_vars

\* The labels of a host name: what its dots separate, the port left out.
Labels(host) == Split(StripPort(host), ".")

\* A host name of non-empty labels with at most a port after it.
HostName(host) ==
  /\ \A i \in DOMAIN Labels(host) : Labels(host)[i] # <<>> /\ Index(Labels(host)[i], ":") = 0
  /\ Index(host, ":") = LastIndex(host, ":")
  /\ LastIndex(host, ":") # Len(host)

\* C21: in hostname mode a host of at least two labels that is not the base
\* domain gives its leftmost label as identifier, the base domain itself and
\* a host of one label give none, and the forwarding path is the request
\* target as it came.
HostModeExtraction ==
  (output.returned /\ HostName(input.host)) =>
    /\ output.tunnelID =
         IF Len(Labels(input.host)) >= 2 /\ StripPort(input.host) # input.baseDomain
         THEN Labels(input.host)[1]
         ELSE <<>>
    /\ output.forwardPath = input.target

\* ------------------------------------------------------------------ agent: request headers
\* The upper-case form of each lower-case letter the header names use.
UpperOf ==
  ("a" :> "A") @@ ("c" :> "C") @@ ("d" :> "D") @@ ("e" :> "E") @@ ("f" :> "F") @@ ("g" :> "G") @@ ("i" :> "I") @@ ("k" :> "K") @@ ("l" :> "L") @@ ("n" :> "N") @@ ("o" :> "O") @@ ("p" :> "P") @@ ("r" :> "R") @@ ("s" :> "S") @@ ("t" :> "T") @@ ("v" :> "V") @@ ("x" :> "X")

ToUpper(ch) == IF ch \in DOMAIN UpperOf THEN UpperOf[ch] ELSE ch
ToLower(ch) == IF \E l \in DOMAIN UpperOf : UpperOf[l] = ch
               THEN CHOOSE l \in DOMAIN UpperOf : UpperOf[l] = ch ELSE ch

\* Header names as a REQUEST can carry them, in several letter cases.
HeaderNames ==
  { <<"C", "o", "n", "n", "e", "c", "t", "i", "o", "n">>,
    <<"c", "o", "n", "n", "e", "c", "t", "i", "o", "n">>,
    <<"C", "O", "N", "N", "E", "C", "T", "I", "O", "N">>,
    <<"K", "e", "e", "p", "-", "A", "l", "i", "v", "e">>,
    <<"k", "e", "e", "p", "-", "a", "l", "i", "v", "e">>,
    <<"T", "r", "a", "n", "s", "f", "e", "r", "-", "E", "n", "c", "o", "d", "i", "n", "g">>,
    <<"t", "r", "a", "n", "s", "f", "e", "r", "-", "e", "n", "c", "o", "d", "i", "n", "g">>,
    <<"X", "-", "I", "d">>,
    <<"x", "-", "i", "d">>,
    <<"A", "c", "c", "e", "p", "t">>,
    <<"a", "c", "c", "e", "p", "t">> }

\* A REQUEST carries at most MaxHeaders headers.
MaxHeaders == 3

\* The name with every letter in lower case: header names that agree in it
\* are the same header.
Fold(key) == [i \in DOMAIN key |-> ToLower(key[i])]

\* REQUEST header maps: a set of names, the value of each being its own
\* spelling; no header twice in two letter cases.
HeaderMaps ==
  {hs \in SUBSET HeaderNames :
     /\ Cardinality(hs) <= MaxHeaders
     /\ \A k1, k2 \in hs : Fold(k1) = Fold(k2) => k1 = k2}

\* textproto.CanonicalMIMEHeaderKey, applied by http.Header.Set: upper case
\* for the first letter and for a letter after "-", lower case for the rest.
CanonicalMIMEHeaderKey(key) ==
  [i \in DOMAIN key |-> IF i = 1 \/ key[i - 1] = "-" THEN ToUpper(key[i]) ELSE ToLower(key[i])]

\* One of Connection, Keep-Alive and Transfer-Encoding in any letter case.
HopByHopAnyCase(key) ==
  Fold(key) \in {Fold(<<"C", "o", "n", "n", "e", "c", "t", "i", "o", "n">>),
                 Fold(<<"K", "e", "e", "p", "-", "A", "l", "i", "v", "e">>),
                 Fold(<<"T", "r", "a", "n", "s", "f", "e", "r", "-", "E", "n", "c", "o", "d", "i", "n", "g">>)}

\* key == "Connection" || key == "Keep-Alive" || key == "Transfer-Encoding"
HopByHop(key) ==
  \/ key = <<"C", "o", "n", "n", "e", "c", "t", "i", "o", "n">>
  \/ key = <<"K", "e", "e", "p", "-", "A", "l", "i", "v", "e">>
  \/ key = <<"T", "r", "a", "n", "s", "f", "e", "r", "-", "E", "n", "c", "o", "d", "i", "n", "g">>

\* The loop of processRequest over req.Headers: httpReq.Header as a set of
\* <<name, value>>.
CopyHeaders(hs) == {<<CanonicalMIMEHeaderKey(k), k>> : k \in {h \in hs : ~HopByHop(h)}}

NoHeaders == [returned |-> FALSE, headers |-> {}]

HeaderInit ==
  /\ Quiet
  /\ scope = NoScope
  /\ input \in HeaderMaps
  /\ output = NoHeaders

\* processRequest builds the request to the local service.
HandleHeaders ==
  /\ ~output.returned
  /\ output' = [returned |-> TRUE, headers |-> CopyHeaders(input)]
  /\ UNCHANGED <<registry, pending, chan, now, hpc, tid, held, inbox, outbox, peerClosed,
                 writers, raced, reqVars, apc, exec, awriters, araced, firstReq, scope,
                 injected, histVars, input>>

HeaderNext == HandleHeaders

HeaderSpec == HeaderInit /\ [][HeaderNext]_vars

\* C22: the headers of the local service call hold none of Connection,
\* Keep-Alive and Transfer-Encoding, in whatever letter case the REQUEST
\* carried them, and hold every other header of the REQUEST with its value.
HopByHopStripped ==
  output.returned =>
    /\ \A h \in output.headers : ~HopByHopAnyCase(h[1])
    /\ \A k \in input :
         ~HopByHopAnyCase(k) => \E h \in output.headers : Fold(h[1]) = Fold(k) /\ h[2] = k

\* ------------------------------------------------------------------ registry on its own
\* The ids the operations of the Registry are called with.
RegIds == {"a", "b", "c"}

NoCall == [op |-> "none"]

RegistryInit ==
  /\ Quiet
  /\ scope = NoScope
  /\ input = <<>>
  /\ output = NoCall

\* What a call of the Registry leaves alone.
RegistryFrame ==
  UNCHANGED <<pending, chan, now, hpc, tid, held, inbox, outbox, peerClosed,
              writers, raced, reqVars, apc, exec, awriters, araced, firstReq, scope,
              injected, histVars, input>>

\* registry.Register(conn, localPort) with generateID returning id
CallRegister ==
  \E id \in RegIds : \E c \in Conns :
    /\ registry' = Register(registry, id, c, LocalPort)
    /\ output' = [op |-> "Register", id |-> id]
    /\ RegistryFrame

\* registry.Remove(id)
CallRemove ==
  \E id \in RegIds :
    /\ registry' = Remove(registry, id)
    /\ output' = [op |-> "Remove", id |-> id, before |-> registry]
    /\ RegistryFrame

\* registry.Get(id)
CallGet ==
  \E id \in RegIds :
    /\ output' = [op |-> "Get", id |-> id, result |-> Get(registry, id)]
    /\ registry' = registry
    /\ RegistryFrame

\* registry.Count()
CallCount ==
  /\ output' = [op |-> "Count", result |-> Count(registry)]
  /\ registry' = registry
  /\ RegistryFrame

RegistryNext == CallRegister \/ CallRemove \/ CallGet \/ CallCount

RegistrySpec == RegistryInit /\ [][RegistryNext]_vars

\* C23: Remove of an absent id leaves the Registry as it is, Remove twice
\* gives what Remove once gives, Remove leaves the entry of every other id
\* as it is, and Get and Count leave the Registry as it is.
RemoveIdempotentLocal ==
  /\ [](\A id \in RegIds :
          /\ id \notin DOMAIN registry => Remove(registry, id) = registry
          /\ Remove(Remove(registry, id), id) = Remove(registry, id)
          /\ \A k \in DOMAIN registry \ {id} : Get(Remove(registry, id), k) = Get(registry, k))
  /\ [][output'.op = "Remove" =>
          /\ output'.id \notin DOMAIN registry => registry' = registry
          /\ \A k \in DOMAIN registry \ {output'.id} :
               k \in DOMAIN registry' /\ registry'[k] = registry[k]]_vars
  /\ [][output'.op \in {"Get", "Count"} => registry' = registry]_vars

\* Remove was called with an id that was absent while other ids had entries.
RemoveIdempotentLocalWitness ==
  /\ output.op = "Remove"
  /\ output.id \notin DOMAIN output.before
  /\ Count(registry) = 2

\* ------------------------------------------------------------------ properties of the tables
\* C24: a RESPONSE read on a connection is handed only to the channel of a
\* request whose REQUEST went out on that connection.
TunnelIsolation ==
  [][\A c \in Conns : \A r \in Reqs :
       ( /\ hpc[c] = "active"
         /\ inbox[c] # <<>>
         /\ inbox'[c] = Tail(inbox[c])
         /\ \/ chan'[r] # chan[r]
            \/ hpc'[c] = "delivering" /\ held'[c].ch = r ) =>
         rconn[r] = c]_vars

\* C25: a handler that is handing a response to a channel can always finish:
\* the buffer of the channel has room, or the request of the channel has yet
\* to take what is in it.
DeliveryCompletes ==
  \A c \in Conns :
    hpc[c] = "delivering" =>
      \/ chan[held[c].ch] = <<>>
      \/ rpc[held[c].ch] \in {"published", "writing", "waiting"}

\* C26: from its Publish to its return the pending table maps the id of a
\* request to that request's own channel, and every key of the table belongs
\* to a request whose handler has not returned.
SlotOwnership ==
  /\ \A r \in Reqs :
       rpc[r] \in {"published", "writing", "waiting", "cleanup"} =>
         /\ rid[r] \in DOMAIN pending
         /\ pending[rid[r]] = r
  /\ \A k \in DOMAIN pending : rpc[pending[k]] # "done"

\* C27: the Registry holds, under the id it was assigned, an entry for every
\* connection whose handler is in its Active loop, and the entry leads to
\* that connection.
TunnelEntryOwnership ==
  \A c \in Conns :
    hpc[c] \in {"active", "delivering"} =>
      /\ tid[c] \in DOMAIN registry
      /\ registry[tid[c]].conn = c

====
